---- MODULE Spec2Model ----
(***************************************************************************)
(* Model of khuongkd/simplebank, package db (src/db/sqlc/store.go):        *)
(* SQLStore.execTx, SQLStore.TransferTx and SQLStore.AddAccountBalanceOrder *)
(* run by concurrent callers against one relational store.                 *)
(*                                                                         *)
(* The store is modelled by what database/sql and the SQL statements do:   *)
(*  - a statement issued on the *sql.DB handle (New(db)) runs in its own   *)
(*    implicit transaction: its effect is committed, and visible to every  *)
(*    reader, when the statement returns, and its row lock is released     *)
(*    with it;                                                             *)
(*  - a statement issued on a *sql.Tx handle (New(tx)) is kept in the      *)
(*    transaction's pending writes, its row lock is held, and both are     *)
(*    applied/released by Commit or dropped by Rollback.                   *)
(*                                                                         *)
(* Spec and FairTransferSpec are the concurrent TransferTx executions,     *)
(* PanicSpec adds the panic of the step, QuerySpec is the queries called   *)
(* directly on Queries (src/db/query/transfer.sql and the query tests),    *)
(* APISpec the HTTP handlers as the tests of package api drive them.       *)
(***************************************************************************)
EXTENDS Integers, Sequences, FiniteSets, TLC

\* ---- bounds of the model
NumAccounts == 2
MaxAmount == 1
InitBalance == 10
MaxCreated == 2
MaxRequests == 3

\* the concurrent callers of TransferTx, numbered in the order of their calls
Procs == {1, 2}
Accounts == 1..NumAccounts
\* the accounts table also holds an account that no request of the callers names
Bystander == NumAccounts + 1
StoreAccounts == Accounts \cup {Bystander}
\* int64 request amounts; 0 stands for the non-positive ones
Amounts == 0..MaxAmount
None == 0

VARIABLES
    pc,          \* per caller: position in TransferTx/execTx
    arg,         \* per caller: CreateTransferParams of the call
    result,      \* per caller: TransferTxResult being filled in
    err,         \* per caller: error returned by TransferTx (nil = <<>>)
    fnErr,       \* per caller: error returned by the closure fn
    cancelled,   \* per caller: ctx.Done() is closed
    txState,     \* per caller: state of the *sql.Tx opened by execTx
    trace,       \* per caller: calls issued so far, in order
    transfers,   \* committed rows of table transfers
    entries,     \* committed rows of table entries
    balance,     \* committed accounts.balance, per account id
    pending,     \* per caller: uncommitted writes of its *sql.Tx
    lockOwner,   \* per account row: the caller whose open tx holds its row lock
    serial,      \* per table: the last value its id sequence handed out
    deleted,     \* the rows a DELETE has removed, as <<table, id>>
    got,         \* the last query issued directly on Queries, and its answer
    http         \* the API server: requests served, the last one and its response

vars == <<pc, arg, result, err, fnErr, cancelled, txState, trace,
          transfers, entries, balance, pending, lockOwner, serial, deleted, got, http>>

\* ---- errors: an error value is the sequence of the causes it carries
nil == <<>>
ErrBegin == <<"begin failed">>
ErrStore == <<"store error">>
ErrCtx == <<"context canceled">>
ErrTxDone == <<"sql: transaction has already been committed or rolled back">>
ErrCommit == <<"commit failed">>
ErrRollback == <<"rollback failed">>
ErrNoRows == <<"sql: no rows in result set">>
ErrConnDone == <<"sql: connection is already closed">>

\* fmt.Errorf("txErr: %v, rbErr: %v", err, errRb): both messages, in this order
Errorf_dropRb(e, errRb) == e
Errorf(e, errRb) == e \o errRb

\* ---- handles
DB == "db"
TX == "tx"
\* NewStore: the Queries embedded in SQLStore are New(db)
StoreQueries == DB
\* execTx: db := New(tx), handed to fn
TxQueries == TX
\* the handle the closure of TransferTx issues its queries on: `store.`, the
\* closure's own *Queries parameter is unnamed and unused
fnQueries == StoreQueries

\* ---- zero values of the result
NoTransfer == [id |-> 0, from |-> 0, to |-> 0, amount |-> 0]
NoEntry == [id |-> 0, account |-> 0, amount |-> 0]
NoAccount == [id |-> 0, balance |-> 0]
NoResult == [Transfer |-> NoTransfer, FromAccount |-> NoAccount, ToAccount |-> NoAccount,
             FromEntry |-> NoEntry, ToEntry |-> NoEntry]
NoArg == [from |-> 0, to |-> 0, amount |-> 0]
NoPending == [transfers |-> {}, entries |-> {}, delta |-> [a \in StoreAccounts |-> 0]]

\* the id sequences of a store holding the accounts of StoreAccounts and nothing else
NoSerial == [accounts |-> Bystander, transfers |-> 0]
NoQuery == [op |-> "", id |-> 0, row |-> NoAccount, err |-> nil]
\* the API server before its first request: no response yet, no store method called
NoCalls == [m \in {"GetAccount", "CreateAcount", "ListAccounts"} |-> 0]
NoHTTP == [served |-> 0, req |-> [route |-> ""], status |-> 0, called |-> <<>>,
           calls |-> NoCalls]

\* one call issued by a caller: the operation, its account and amount arguments (0
\* when it has none) and the error it returned
Call(op, a, n, e) == [op |-> op, a |-> a, n |-> n, err |-> e]

Init ==
    /\ pc = [p \in Procs |-> "idle"]
    /\ arg = [p \in Procs |-> NoArg]
    /\ result = [p \in Procs |-> NoResult]
    /\ err = [p \in Procs |-> nil]
    /\ fnErr = [p \in Procs |-> nil]
    /\ cancelled = [p \in Procs |-> FALSE]
    /\ txState = [p \in Procs |-> "none"]
    /\ trace = [p \in Procs |-> <<>>]
    /\ transfers = {}
    /\ entries = {}
    /\ balance = [a \in StoreAccounts |-> InitBalance]
    /\ pending = [p \in Procs |-> NoPending]
    /\ lockOwner = [a \in StoreAccounts |-> None]
    /\ serial = NoSerial
    /\ deleted = {}
    /\ got = NoQuery
    /\ http = NoHTTP

\* the requests a caller can make, and those that are transfers of a positive
\* amount between two different accounts
Requests == [from : Accounts, to : Accounts, amount : Amounts]
ValidRequests == {r \in Requests : r.amount > 0 /\ r.from # r.to}

\* a caller invokes store.TransferTx(ctx, params), params drawn from R
TransferTxCallWith(p, R) ==
    /\ pc[p] = "idle"
    /\ \A q \in Procs : q < p => pc[q] # "idle"
    /\ \E r \in R : arg' = [arg EXCEPT ![p] = r]
    /\ pc' = [pc EXCEPT ![p] = "begin"]
    /\ UNCHANGED <<result, err, fnErr, cancelled, txState, trace, transfers, entries,
                   balance, pending, lockOwner>>
    /\ UNCHANGED <<serial, deleted, got, http>>

\* The caller's ctx may become done (cancelled, timed out) at any point of the
\* call. A done ctx changes nothing by itself: it is the step that finds it done
\* that fails with ctx's error, so it is an input of that step.
\* a query of the closure returned e: `if err != nil { return err }`
Failed_retries(p, op, a, n, e) ==
    /\ cancelled' = [cancelled EXCEPT ![p] = (e = ErrCtx)]
    /\ fnErr' = fnErr
    /\ pc' = pc
    /\ trace' = [trace EXCEPT ![p] = Append(@, Call(op, a, n, e))]
Failed(p, op, a, n, e) ==
    /\ cancelled' = [cancelled EXCEPT ![p] = (e = ErrCtx)]
    /\ fnErr' = [fnErr EXCEPT ![p] = e]
    /\ pc' = [pc EXCEPT ![p] = "Rollback"]
    /\ trace' = [trace EXCEPT ![p] = Append(@, Call(op, a, n, e))]

\* execTx: tx, err := store.db.BeginTx(ctx, nil); if err != nil { return err }
BeginTx(p) ==
    /\ pc[p] = "begin"
    /\ \/ /\ txState' = [txState EXCEPT ![p] = "open"]
          /\ pc' = [pc EXCEPT ![p] = "CreateTransfer"]
          /\ trace' = [trace EXCEPT ![p] = Append(@, Call("BeginTx", 0, 0, nil))]
          /\ UNCHANGED <<err, cancelled>>
       \/ /\ \E e \in {ErrBegin, ErrCtx} :
                /\ err' = [err EXCEPT ![p] = e]
                /\ cancelled' = [cancelled EXCEPT ![p] = (e = ErrCtx)]
                /\ trace' = [trace EXCEPT ![p] = Append(@, Call("BeginTx", 0, 0, e))]
          /\ pc' = [pc EXCEPT ![p] = "done"]
          /\ txState' = txState
    /\ UNCHANGED <<arg, result, fnErr, transfers, entries,
                   balance, pending, lockOwner>>
    /\ UNCHANGED <<serial, deleted, got, http>>

\* ---- the store's statements
\* RETURNING *: the id of an inserted row is a fresh value of the table's serial,
\* different for every insert; a caller inserts one transfer and two entries
TransferID_same(p) == 1
TransferID(p) == p
EntryID(p, field) == IF field = "FromEntry" THEN 2 * p - 1 ELSE 2 * p

\* -- name: CreateTransfer :one  INSERT INTO transfers(...) VALUES ($1,$2,$3) RETURNING *
CreateTransferRow(id, params) ==
    [id |-> id, from |-> params.from, to |-> params.to, amount |-> params.amount]

\* -- name: CreateEntry :one  INSERT INTO entries(account_id, amount) VALUES ($1,$2) RETURNING *
CreateEntryRow(id, accountID, amount) ==
    [id |-> id, account |-> accountID, amount |-> amount]

\* AddAccountBalance: UPDATE accounts SET balance = balance + amount WHERE id = $id
AddAccountBalance(bal, id, amount) == [bal EXCEPT ![id] = @ + amount]

\* the errors of a statement that fails: the store's, or ctx's when ctx is done
StmtErrs == {ErrStore, ErrCtx}

\* a statement on handle q can run: a tx handle needs its tx open
CanRun(p, q) == q = TX => txState[p] = "open"

Released(p) == [a \in StoreAccounts |-> IF lockOwner[a] = p THEN None ELSE lockOwner[a]]

\* closure of TransferTx, "create transfer"
CreateTransfer(p) ==
    /\ pc[p] = "CreateTransfer"
    /\ \/ /\ CanRun(p, fnQueries)
          /\ LET transfer == CreateTransferRow(TransferID(p), arg[p]) IN
             /\ IF fnQueries = DB
                  THEN transfers' = transfers \cup {transfer} /\ pending' = pending
                  ELSE /\ pending' = [pending EXCEPT ![p].transfers = @ \cup {transfer}]
                       /\ transfers' = transfers
             /\ result' = [result EXCEPT ![p].Transfer = transfer]
          /\ pc' = [pc EXCEPT ![p] = "CreateFromEntry"]
          /\ trace' = [trace EXCEPT ![p] =
                         Append(@, Call("CreateTransfer", arg[p].from, arg[p].amount, nil))]
          /\ UNCHANGED <<fnErr, cancelled>>
       \/ /\ \E e \in StmtErrs : Failed(p, "CreateTransfer", arg[p].from, arg[p].amount, e)
          /\ UNCHANGED <<transfers, pending, result>>
    /\ UNCHANGED <<arg, err, txState, entries, balance, lockOwner>>
    /\ UNCHANGED <<serial, deleted, got, http>>

\* the CreateEntryParams of the two entries of a transfer row
FromEntryParams(transfer) == [account |-> transfer.from, amount |-> -transfer.amount]
ToEntryParams(transfer) == [account |-> transfer.to, amount |-> transfer.amount]

\* closure of TransferTx, "create fromEntry" (field = "FromEntry") and
\* "create toEntry" (field = "ToEntry")
CreateEntry(p, here, field, params, then) ==
    /\ pc[p] = here
    /\ \/ /\ CanRun(p, fnQueries)
          /\ LET entry == CreateEntryRow(EntryID(p, field), params.account, params.amount) IN
             /\ IF fnQueries = DB
                  THEN entries' = entries \cup {entry} /\ pending' = pending
                  ELSE /\ pending' = [pending EXCEPT ![p].entries = @ \cup {entry}]
                       /\ entries' = entries
             /\ result' = [result EXCEPT ![p][field] = entry]
          /\ pc' = [pc EXCEPT ![p] = then]
          /\ trace' = [trace EXCEPT ![p] =
                         Append(@, Call("CreateEntry", params.account, params.amount, nil))]
          /\ UNCHANGED <<fnErr, cancelled>>
       \/ /\ \E e \in StmtErrs : Failed(p, "CreateEntry", params.account, params.amount, e)
          /\ UNCHANGED <<entries, pending, result>>
    /\ UNCHANGED <<arg, err, txState, transfers, balance, lockOwner>>
    /\ UNCHANGED <<serial, deleted, got, http>>

CreateFromEntry(p) ==
    CreateEntry(p, "CreateFromEntry", "FromEntry", FromEntryParams(result[p].Transfer),
                "CreateToEntry")

CreateToEntry_skipsUpdates(p) ==
    CreateEntry(p, "CreateToEntry", "ToEntry", ToEntryParams(result[p].Transfer),
                "Commit")
CreateToEntry(p) ==
    CreateEntry(p, "CreateToEntry", "ToEntry", ToEntryParams(result[p].Transfer),
                "AddAccountBalance1")

Update(q, id, amount, field) == [q |-> q, id |-> id, amount |-> amount, field |-> field]

\* AddAccountBalanceOrder: the two AddAccountBalance calls it issues, in order, each
\* with the handle it is issued on and the named return value it assigns
AddAccountBalanceOrder_fromFirst(account1ID, account2ID, amount) ==
    << Update(StoreQueries, account1ID, -amount, "FromAccount"),
       Update(StoreQueries, account2ID, amount, "ToAccount") >>
AddAccountBalanceOrder_swappedSigns(account1ID, account2ID, amount) ==
    IF account1ID < account2ID
      THEN << Update(StoreQueries, account1ID, -amount, "FromAccount"),
              Update(StoreQueries, account2ID, amount, "ToAccount") >>
      ELSE << Update(StoreQueries, account2ID, -amount, "ToAccount"),
              Update(StoreQueries, account1ID, amount, "FromAccount") >>
AddAccountBalanceOrder_txFromFirst(account1ID, account2ID, amount) ==
    << Update(TxQueries, account1ID, -amount, "FromAccount"),
       Update(TxQueries, account2ID, amount, "ToAccount") >>
AddAccountBalanceOrder_swappedFields(account1ID, account2ID, amount) ==
    IF account1ID < account2ID
      THEN << Update(StoreQueries, account1ID, -amount, "FromAccount"),
              Update(StoreQueries, account2ID, amount, "ToAccount") >>
      ELSE << Update(StoreQueries, account2ID, amount, "FromAccount"),
              Update(StoreQueries, account1ID, -amount, "ToAccount") >>
AddAccountBalanceOrder_wrongAccount(account1ID, account2ID, amount) ==
    IF account1ID < account2ID
      THEN << Update(StoreQueries, account1ID, -amount, "FromAccount"),
              Update(StoreQueries, account2ID + 1, amount, "ToAccount") >>
      ELSE << Update(StoreQueries, account2ID, amount, "ToAccount"),
              Update(StoreQueries, account1ID, -amount, "FromAccount") >>
AddAccountBalanceOrder(account1ID, account2ID, amount) ==
    IF account1ID < account2ID
      THEN << Update(StoreQueries, account1ID, -amount, "FromAccount"),
              Update(StoreQueries, account2ID, amount, "ToAccount") >>
      ELSE << Update(StoreQueries, account2ID, amount, "ToAccount"),
              Update(StoreQueries, account1ID, -amount, "FromAccount") >>

\* the update the caller is about to issue, when it is inside AddAccountBalanceOrder
AtUpdate(p) == pc[p] \in {"AddAccountBalance1", "AddAccountBalance2"}
UpdateIndex(p) == IF pc[p] = "AddAccountBalance1" THEN 1 ELSE 2
NextUpdate(p) ==
    AddAccountBalanceOrder(arg[p].from, arg[p].to, arg[p].amount)[UpdateIndex(p)]

\* the row lock the update needs is free: a statement on the db handle runs in a
\* transaction of its own, a statement on the tx handle in the caller's tx
RowFree(p, u) ==
    IF u.q = DB THEN lockOwner[u.id] = None ELSE lockOwner[u.id] \in {None, p}

\* one AddAccountBalance call of AddAccountBalanceOrder, called from the closure
AddAccountBalanceStep(p) ==
    /\ AtUpdate(p)
    /\ LET u == NextUpdate(p)
           then == IF pc[p] = "AddAccountBalance1" THEN "AddAccountBalance2" ELSE "Commit"
       IN
       \/ /\ CanRun(p, u.q)
          /\ RowFree(p, u)
          /\ IF u.q = DB
               THEN /\ balance' = AddAccountBalance(balance, u.id, u.amount)
                    /\ result' = [result EXCEPT ![p][u.field] =
                                     [id |-> u.id, balance |-> balance'[u.id]]]
                    /\ UNCHANGED <<pending, lockOwner>>
               ELSE /\ pending' = [pending EXCEPT ![p].delta =
                                      AddAccountBalance(@, u.id, u.amount)]
                    /\ result' = [result EXCEPT ![p][u.field] =
                                     [id |-> u.id,
                                      balance |-> balance[u.id] + pending'[p].delta[u.id]]]
                    /\ lockOwner' = [lockOwner EXCEPT ![u.id] = p]
                    /\ UNCHANGED balance
          /\ pc' = [pc EXCEPT ![p] = then]
          /\ trace' = [trace EXCEPT ![p] =
                         Append(@, Call("AddAccountBalance", u.id, u.amount, nil))]
          /\ UNCHANGED <<fnErr, cancelled>>
       \/ /\ \E e \in StmtErrs : Failed(p, "AddAccountBalance", u.id, u.amount, e)
          /\ UNCHANGED <<balance, result, pending, lockOwner>>
    /\ UNCHANGED <<arg, err, txState, transfers, entries>>
    /\ UNCHANGED <<serial, deleted, got, http>>

\* the pending writes of p's tx applied to the committed store (COMMIT)
Applied(p) == [a \in StoreAccounts |-> balance[a] + pending[p].delta[a]]

\* execTx: return tx.Commit(), reached when fn returned nil.
\* BeginTx(ctx, ...) makes database/sql roll the tx back once ctx is done, and
\* tx.Commit refuses to commit then (ctx's error, or ErrTxDone when that rollback
\* already ran); when the store fails the commit the tx is gone as well.
Commit(p) ==
    /\ pc[p] = "Commit"
    /\ \/ /\ txState' = [txState EXCEPT ![p] = "committed"]
          /\ transfers' = transfers \cup pending[p].transfers
          /\ entries' = entries \cup pending[p].entries
          /\ balance' = Applied(p)
          /\ err' = [err EXCEPT ![p] = nil]
          /\ trace' = [trace EXCEPT ![p] = Append(@, Call("Commit", 0, 0, nil))]
          /\ cancelled' = cancelled
       \/ /\ \E e \in {ErrCommit, ErrCtx, ErrTxDone} :
                /\ err' = [err EXCEPT ![p] = e]
                /\ trace' = [trace EXCEPT ![p] = Append(@, Call("Commit", 0, 0, e))]
                /\ cancelled' = [cancelled EXCEPT ![p] = (e # ErrCommit)]
                /\ txState' = [txState EXCEPT ![p] =
                                  IF e = ErrCommit THEN "commitFailed" ELSE "rolledback"]
          /\ UNCHANGED <<transfers, entries, balance>>
    /\ pending' = [pending EXCEPT ![p] = NoPending]
    /\ lockOwner' = Released(p)
    /\ pc' = [pc EXCEPT ![p] = "done"]
    /\ UNCHANGED <<arg, result, fnErr>>
    /\ UNCHANGED <<serial, deleted, got, http>>

\* what tx.Rollback() can return: nil, the store's failure, or ErrTxDone when the
\* tx was already rolled back for a done ctx
RollbackErrs(p) == {nil, ErrRollback} \cup (IF cancelled[p] THEN {ErrTxDone} ELSE {})

\* execTx, fn returned e and tx.Rollback() returned errRb:
\* if errRb != nil { return fmt.Errorf("txErr: %v, rbErr: %v", err, errRb) }; return err
execTxReturn(e, errRb) == IF errRb # nil THEN Errorf(e, errRb) ELSE e

\* execTx: the branch `if err != nil` after fn(db)
Rollback(p) ==
    /\ pc[p] = "Rollback"
    /\ \E errRb \in RollbackErrs(p) :
          /\ err' = [err EXCEPT ![p] = execTxReturn(fnErr[p], errRb)]
          /\ trace' = [trace EXCEPT ![p] = Append(@, Call("Rollback", 0, 0, errRb))]
          /\ txState' = [txState EXCEPT ![p] =
                            IF errRb = ErrRollback THEN "rollbackFailed" ELSE "rolledback"]
    /\ pending' = [pending EXCEPT ![p] = NoPending]
    /\ lockOwner' = Released(p)
    /\ pc' = [pc EXCEPT ![p] = "done"]
    /\ UNCHANGED <<arg, result, fnErr, cancelled, transfers, entries, balance>>
    /\ UNCHANGED <<serial, deleted, got, http>>

\* one step of caller p's TransferTx
Step(p) ==
    \/ BeginTx(p)
    \/ CreateTransfer(p)
    \/ CreateFromEntry(p)
    \/ CreateToEntry(p)
    \/ AddAccountBalanceStep(p)
    \/ Commit(p)
    \/ Rollback(p)

TransferTxCall(p) == TransferTxCallWith(p, Requests)

Next ==
    \E p \in Procs :
        \/ TransferTxCall(p)
        \/ Step(p)

Spec == Init /\ [][Next]_vars

\* concurrent transfers only: every request is a valid one
TransferNext ==
    \E p \in Procs :
        \/ TransferTxCallWith(p, ValidRequests)
        \/ Step(p)

\* a caller that has started keeps taking steps (goroutines are scheduled fairly)
FairTransferSpec == Init /\ [][TransferNext]_vars /\ \A p \in Procs : WF_vars(Step(p))

\* The closure fn panics inside one of its calls: `err = fn(db)` does not return.
\* execTx has no deferred Rollback and no recover, so the panic unwinds execTx and
\* TransferTx: neither tx.Rollback() nor tx.Commit() runs and the tx stays as it is.
Panic(p) ==
    /\ pc[p] \in {"CreateTransfer", "CreateFromEntry", "CreateToEntry",
                  "AddAccountBalance1", "AddAccountBalance2"}
    /\ pc' = [pc EXCEPT ![p] = "panicked"]
    /\ UNCHANGED <<arg, result, err, fnErr, cancelled, txState, trace, transfers,
                   entries, balance, pending, lockOwner>>
    /\ UNCHANGED <<serial, deleted, got, http>>

PanicNext ==
    \/ Next
    \/ \E p \in Procs : Panic(p)

\* every exit path of execTx, the panic of the step included
PanicSpec == Init /\ [][PanicNext]_vars

\* ---- queries issued directly on Queries (testQueries), outside TransferTx
\* what TransferTx owns is left alone by them
txVars == <<pc, arg, result, err, fnErr, cancelled, txState, trace, entries, pending,
            lockOwner>>

Query(op, id, row, e) == [op |-> op, id |-> id, row |-> row, err |-> e]

\* the ids a test can ask for: 0 is the id of no row
AccountIDs == 0..(Bystander + MaxCreated)
TransferIDs == 0..MaxCreated

\* createTestAccount: testQueries.CreateAcount(ctx, arg); the new row gets the next
\* value of the id sequence
CreateAcountQuery ==
    /\ serial.accounts < Bystander + MaxCreated
    /\ LET id == serial.accounts + 1 IN
          /\ serial' = [serial EXCEPT !.accounts = id]
          /\ balance' = [a \in DOMAIN balance \cup {id} |->
                            IF a = id THEN InitBalance ELSE balance[a]]
          /\ got' = Query("CreateAcount", id, [id |-> id, balance |-> InitBalance], nil)
    /\ UNCHANGED <<txVars, transfers, deleted, http>>

\* DeleteAccount: DELETE FROM accounts WHERE id = $1
DeleteAccountRows(bal, id) == [a \in DOMAIN bal \ {id} |-> bal[a]]

\* GetAccount: SELECT * FROM accounts WHERE id = $1 LIMIT 1, no row: sql.ErrNoRows
\* and the zero Account
GetAccountRow(bal, id) ==
    IF id \in DOMAIN bal
    THEN [row |-> [id |-> id, balance |-> bal[id]], err |-> nil]
    ELSE [row |-> NoAccount, err |-> ErrNoRows]

\* deleteTestAccount: testQueries.DeleteAccount(ctx, ID); the store may refuse
DeleteAccountQuery(id) ==
    /\ \/ /\ balance' = DeleteAccountRows(balance, id)
          /\ deleted' = IF id \in DOMAIN balance
                           THEN deleted \cup {<<"accounts", id>>} ELSE deleted
          /\ got' = Query("DeleteAccount", id, NoAccount, nil)
       \/ /\ got' = Query("DeleteAccount", id, NoAccount, ErrStore)
          /\ UNCHANGED <<balance, deleted>>
    /\ UNCHANGED <<txVars, transfers, serial, http>>

\* deleteTestAccount: testQueries.GetAccount(ctx, ID)
GetAccountQuery(id) ==
    /\ LET r == GetAccountRow(balance, id) IN got' = Query("GetAccount", id, r.row, r.err)
    /\ UNCHANGED <<txVars, transfers, balance, serial, deleted, http>>

\* createTestTransfer: the CreateTransferParams of the transfer it creates
TestTransferParams == [from |-> NumAccounts, to |-> 1, amount |-> MaxAmount]

\* createTestTransfer: testQueries.CreateTransfer(ctx, arg)
CreateTransferQuery ==
    /\ serial.transfers < MaxCreated
    /\ LET id == serial.transfers + 1
           transfer == CreateTransferRow(id, TestTransferParams)
       IN /\ serial' = [serial EXCEPT !.transfers = id]
          /\ transfers' = transfers \cup {transfer}
          /\ got' = Query("CreateTransfer", id, transfer, nil)
    /\ UNCHANGED <<txVars, balance, deleted, http>>

\* -- name: DeleteTransfer :exec  DELETE FROM transfers WHERE id = $1;
DeleteTransferRows_byAccount(rows, id) == {t \in rows : t.from # id}
DeleteTransferRows(rows, id) == {t \in rows : t.id # id}

\* -- name: GetTransfer :one  SELECT * FROM transfers WHERE id = $1; no row:
\* sql.ErrNoRows and the zero Transfer
GetTransferRow(rows, id) ==
    IF \E t \in rows : t.id = id
    THEN [row |-> CHOOSE t \in rows : t.id = id, err |-> nil]
    ELSE [row |-> NoTransfer, err |-> ErrNoRows]

\* TestDeleteTransfer: testQueries.DeleteTransfer(ctx, transfer1.ID)
DeleteTransferQuery(id) ==
    /\ \/ /\ transfers' = DeleteTransferRows(transfers, id)
          /\ deleted' = IF \E t \in transfers : t.id = id
                           THEN deleted \cup {<<"transfers", id>>} ELSE deleted
          /\ got' = Query("DeleteTransfer", id, NoTransfer, nil)
       \/ /\ got' = Query("DeleteTransfer", id, NoTransfer, ErrStore)
          /\ UNCHANGED <<transfers, deleted>>
    /\ UNCHANGED <<txVars, balance, serial, http>>

\* TestDeleteTransfer, TestGetTransfer: testQueries.GetTransfer(ctx, transfer1.ID)
GetTransferQuery(id) ==
    /\ LET r == GetTransferRow(transfers, id) IN
          got' = Query("GetTransfer", id, r.row, r.err)
    /\ UNCHANGED <<txVars, transfers, balance, serial, deleted, http>>

QueryNext ==
    \/ CreateAcountQuery
    \/ CreateTransferQuery
    \/ \E id \in AccountIDs : DeleteAccountQuery(id) \/ GetAccountQuery(id)
    \/ \E id \in TransferIDs : DeleteTransferQuery(id) \/ GetTransferQuery(id)

\* the tests of the queries: any sequence of creates, deletes and gets
QuerySpec == Init /\ [][QueryNext]_vars

\* ---- the API server (package api), as its tests drive it: one request at a time
\* against a store whose answer is chosen by the test
StatusOK == 200
StatusBadRequest == 400
StatusNotFound == 404
StatusInternalServerError == 500

Currencies == {"USD", "EUR"}
APIRequests ==
    [route : {"getAccount"}, id : 0..NumAccounts]
    \cup [route : {"createAccount"}, owner : {"", "owner"}, currency : Currencies \cup {"xyz"}]
    \cup [route : {"listAccounts"}, page_id : 0..NumAccounts]

\* binding of the request: GET /account/:id wants id >= 1, GET /accounts wants
\* page_id >= 1, POST /accounts wants an owner and a supported currency
ShouldBind(r) ==
    CASE r.route = "getAccount" -> r.id >= 1
      [] r.route = "listAccounts" -> r.page_id >= 1
      [] OTHER -> r.owner # "" /\ r.currency \in Currencies

\* the store method behind each route
StoreMethod(r) ==
    CASE r.route = "getAccount" -> "GetAccount"
      [] r.route = "listAccounts" -> "ListAccounts"
      [] OTHER -> "CreateAcount"

\* what the store can answer: a row (nil), no row for the two reads, a failure
StoreErrs(r) ==
    IF r.route = "createAccount" THEN {nil, ErrConnDone} ELSE {nil, ErrNoRows, ErrConnDone}

\* the status the handler answers a store result with
StatusOf_noNotFound(e) == IF e = nil THEN StatusOK ELSE StatusInternalServerError
StatusOf(e) ==
    IF e = nil THEN StatusOK
    ELSE IF e = ErrNoRows THEN StatusNotFound
    ELSE StatusInternalServerError

\* server.router.ServeHTTP(recorder, request), the store answering e when called
ServeHTTP(r, e) ==
    /\ http.served < MaxRequests
    /\ IF ShouldBind(r)
         THEN http' = [served |-> http.served + 1, req |-> r, status |-> StatusOf(e),
                       called |-> <<[method |-> StoreMethod(r), err |-> e]>>,
                       calls |-> [http.calls EXCEPT ![StoreMethod(r)] = @ + 1]]
         ELSE http' = [served |-> http.served + 1, req |-> r, status |-> StatusBadRequest,
                       called |-> <<>>, calls |-> http.calls]
    /\ UNCHANGED <<txVars, transfers, balance, serial, deleted, got>>

APINext == \E r \in APIRequests : \E e \in StoreErrs(r) : ServeHTTP(r, e)

APISpec == Init /\ [][APINext]_vars

\* ---- vocabulary of the properties
Done(p) == pc[p] = "done"
InFlight(p) == pc[p] \notin {"idle", "done"}
AllDone == \A p \in Procs : Done(p)
OthersIdle(p) == \A q \in Procs \ {p} : pc[q] = "idle"
Valid(p) == arg[p].amount > 0 /\ arg[p].from # arg[p].to
InitialBalances == [a \in StoreAccounts |-> InitBalance]

\* the rows of caller p's execution that every reader of the store sees
TransferPersisted(p) == result[p].Transfer # NoTransfer /\ result[p].Transfer \in transfers
FromEntryPersisted(p) == result[p].FromEntry # NoEntry /\ result[p].FromEntry \in entries
ToEntryPersisted(p) == result[p].ToEntry # NoEntry /\ result[p].ToEntry \in entries
NothingPersisted(p) ==
    ~TransferPersisted(p) /\ ~FromEntryPersisted(p) /\ ~ToEntryPersisted(p)

\* the AddAccountBalance calls caller p has issued, in order
IsUpdate(c) == c.op = "AddAccountBalance"
Updates(p) == SelectSeq(trace[p], IsUpdate)
Issued(p, op) == \E i \in 1..Len(trace[p]) : trace[p][i].op = op

\* the signed delta the transfer of caller p owes account a
Delta(p, a) ==
    (IF a = arg[p].to THEN arg[p].amount ELSE 0)
    - (IF a = arg[p].from THEN arg[p].amount ELSE 0)

RECURSIVE SumDelta(_, _)
SumDelta(S, a) ==
    IF S = {} THEN 0
    ELSE LET p == CHOOSE x \in S : TRUE IN Delta(p, a) + SumDelta(S \ {p}, a)

Committed == {p \in Procs : txState[p] = "committed"}

\* C1 (atomicity): a TransferTx that returned an error has left no Transfer row and
\* no Entry row of its own in the store, and, run on its own, has left both
\* balances at their values before the call.
C1_Atomicity ==
    \A p \in Procs :
        (Done(p) /\ err[p] # nil /\ Valid(p)) =>
            /\ NothingPersisted(p)
            /\ OthersIdle(p) => balance = InitialBalances

\* C2 (isolation): while a TransferTx is in flight (begun, not yet returned) its
\* Transfer row, its Entry rows and its balance changes are not in the state that
\* readers outside its transaction see.
C2_Isolation ==
    \A p \in Procs :
        (InFlight(p) /\ Valid(p)) =>
            /\ NothingPersisted(p)
            /\ OthersIdle(p) => balance = InitialBalances

\* C3 (transfer arithmetic): after a successful TransferTx(from, to, amount) with
\* amount > 0 and from # to, run without interference, the destination balance has
\* grown by amount, the source balance has shrunk by amount, FromEntry is
\* (from, -amount), ToEntry is (to, +amount), and the two entry amounts sum to zero.
C3_TransferArithmetic ==
    \A p \in Procs :
        (Done(p) /\ err[p] = nil /\ Valid(p) /\ OthersIdle(p)) =>
            /\ balance[arg[p].to] - InitBalance = arg[p].amount
            /\ balance[arg[p].from] - InitBalance = -arg[p].amount
            /\ result[p].FromEntry.account = arg[p].from
            /\ result[p].FromEntry.amount = -arg[p].amount
            /\ result[p].ToEntry.account = arg[p].to
            /\ result[p].ToEntry.amount = arg[p].amount
            /\ result[p].FromEntry.amount + result[p].ToEntry.amount = 0
            /\ FromEntryPersisted(p) /\ ToEntryPersisted(p)

C3_Witness ==
    \E p \in Procs :
        /\ Done(p) /\ err[p] = nil /\ Valid(p) /\ OthersIdle(p)
        /\ arg[p].from > arg[p].to

\* C4 (no lost update): once every TransferTx has returned, each account's balance
\* is its initial balance plus the signed deltas of exactly the committed transfers.
C4_NoLostUpdate ==
    (AllDone /\ \A p \in Procs : Valid(p)) =>
        \A a \in Accounts : balance[a] = InitBalance + SumDelta(Committed, a)

\* C5 (update order): in every TransferTx with from # to the AddAccountBalance call
\* for the smaller account id is issued first and the one for the larger id second;
\* the source is always debited by amount and the destination credited by amount.
C5_UpdateOrder ==
    \A p \in Procs :
        arg[p].from # arg[p].to =>
            LET u == Updates(p)
                lo == IF arg[p].from < arg[p].to THEN arg[p].from ELSE arg[p].to
                hi == IF arg[p].from < arg[p].to THEN arg[p].to ELSE arg[p].from
            IN /\ Len(u) <= 2
               /\ Len(u) >= 1 => u[1].a = lo
               /\ Len(u) = 2 => u[2].a = hi
               /\ \A i \in 1..Len(u) :
                     u[i].n = IF u[i].a = arg[p].from THEN -arg[p].amount ELSE arg[p].amount

C5_Witness ==
    \E p \in Procs :
        /\ arg[p].from > arg[p].to /\ arg[p].amount > 0
        /\ Len(Updates(p)) = 2 /\ Updates(p)[1].err = nil /\ Updates(p)[2].err = nil

\* caller p waits for caller q: the row its next AddAccountBalance needs is locked by
\* q's open tx (q = p: a statement on the db handle behind p's own tx)
WaitsFor(p, q) ==
    /\ AtUpdate(p)
    /\ ~RowFree(p, NextUpdate(p))
    /\ lockOwner[NextUpdate(p).id] = q

RECURSIVE WaitsPath(_, _, _)
WaitsPath(p, q, n) ==
    \/ WaitsFor(p, q)
    \/ n > 1 /\ \E r \in Procs : WaitsFor(p, r) /\ WaitsPath(r, q, n - 1)

CircularWait == \E p \in Procs : WaitsPath(p, p, Cardinality(Procs))

C7_Pairing ==
    (\A q \in Procs : ~InFlight(q)) =>
        \A p \in Procs :
            Valid(p) =>
                /\ TransferPersisted(p) =>
                      /\ FromEntryPersisted(p) /\ ToEntryPersisted(p)
                      /\ result[p].FromEntry.account = arg[p].from
                      /\ result[p].FromEntry.amount = -arg[p].amount
                      /\ result[p].ToEntry.account = arg[p].to
                      /\ result[p].ToEntry.amount = arg[p].amount
                /\ (FromEntryPersisted(p) \/ ToEntryPersisted(p)) => TransferPersisted(p)

\* C8 (validation first): a TransferTx whose amount is not positive or whose two
\* accounts are the same begins no transaction, causes no rollback, creates no
\* Transfer or Entry row, issues no AddAccountBalance, and returns an error.
C8_ValidationFirst ==
    \A p \in Procs :
        (pc[p] # "idle" /\ ~Valid(p)) =>
            /\ ~Issued(p, "BeginTx") /\ ~Issued(p, "Rollback")
            /\ NothingPersisted(p)
            /\ Len(Updates(p)) = 0
            /\ Done(p) => err[p] # nil

\* error e carries every cause of error c
Carries(e, c) == \A i \in 1..Len(c) : \E j \in 1..Len(e) : e[j] = c[i]
LastCall(p) == trace[p][Len(trace[p])]

\* C9 (execTx contract): when TransferTx has returned, (a) if BeginTx failed, no
\* query of the step was issued and the begin error is returned; (b) if the step
\* returned nil, Commit was called, Rollback was not, and Commit's result is what
\* is returned; (c) if the step returned an error, Rollback was called, Commit was
\* not, nothing is committed, the step's error is returned when Rollback succeeded
\* and an error carrying both the step's and Rollback's causes when it failed.
C9_ExecTxContract ==
    \A p \in Procs :
        Done(p) =>
            LET t == trace[p]
                last == LastCall(p)
            IN  /\ t[1].op = "BeginTx"
                /\ t[1].err # nil =>
                      /\ Len(t) = 1
                      /\ err[p] = t[1].err
                      /\ result[p] = NoResult /\ txState[p] = "none"
                /\ (t[1].err = nil /\ fnErr[p] = nil) =>
                      /\ last.op = "Commit" /\ ~Issued(p, "Rollback")
                      /\ \A i \in 2..(Len(t) - 1) : t[i].err = nil
                      /\ err[p] = last.err
                      /\ (txState[p] = "committed") <=> (last.err = nil)
                /\ (t[1].err = nil /\ fnErr[p] # nil) =>
                      /\ last.op = "Rollback" /\ ~Issued(p, "Commit")
                      /\ t[Len(t) - 1].err = fnErr[p]
                      /\ txState[p] # "committed"
                      /\ last.err = nil => err[p] = fnErr[p]
                      /\ last.err # nil => Carries(err[p], fnErr[p]) /\ Carries(err[p], last.err)

C9_Witness ==
    \E p \in Procs :
        /\ Done(p) /\ fnErr[p] # nil
        /\ LastCall(p).op = "Rollback" /\ LastCall(p).err # nil

\* C10 (cancellation): a TransferTx of a valid request whose ctx was found done has
\* not committed when it returns, none of its Transfer or Entry rows persist and,
\* run on its own, both balances are what they were before the call.
C10_Cancellation ==
    \A p \in Procs :
        (Done(p) /\ cancelled[p] /\ Valid(p)) =>
            /\ txState[p] # "committed"
            /\ NothingPersisted(p)
            /\ OthersIdle(p) => balance = InitialBalances

\* TransferTx is over for caller p: it returned, or a panic left it
Exited(p) == pc[p] \in {"done", "panicked"}
Opened(p) == \E i \in 1..Len(trace[p]) : trace[p][i].op = "BeginTx" /\ trace[p][i].err = nil
CommitSucceeded(p) ==
    \E i \in 1..Len(trace[p]) : trace[p][i].op = "Commit" /\ trace[p][i].err = nil

\* C11 (transaction always closed): on every exit of TransferTx (normal return,
\* error return, panic of the step, cancellation) the transaction execTx opened is
\* no longer open and holds no row lock, exactly one of Commit and Rollback was
\* called on it, and it is committed only if Commit succeeded.
C11_TxClosed ==
    \A p \in Procs :
        (Exited(p) /\ Opened(p) /\ Valid(p)) =>
            /\ txState[p] \notin {"none", "open"}
            /\ Issued(p, "Commit") # Issued(p, "Rollback")
            /\ (txState[p] = "committed") <=> CommitSucceeded(p)
            /\ \A a \in Accounts : lockOwner[a] # p

\* two different callers whose calls had the same (from, to, amount), a valid one,
\* and both returned nil
Twins(p, q) ==
    /\ p # q /\ arg[p] = arg[q] /\ Valid(p)
    /\ Done(p) /\ err[p] = nil
    /\ Done(q) /\ err[q] = nil

\* C12 (no deduplication): two successful TransferTx calls with the same (from, to,
\* amount), run one after the other or concurrently, leave two Transfer rows with
\* different ids, four Entry rows, and the source balance lower by 2*amount and the
\* destination balance higher by 2*amount.
C12_NoDeduplication ==
    \A p \in Procs, q \in Procs :
        Twins(p, q) =>
            LET mine == {t \in transfers : t.from = arg[p].from /\ t.to = arg[p].to
                                            /\ t.amount = arg[p].amount}
                rows == {result[p].FromEntry, result[p].ToEntry,
                         result[q].FromEntry, result[q].ToEntry}
            IN  /\ result[p].Transfer.id # result[q].Transfer.id
                /\ mine = {result[p].Transfer, result[q].Transfer}
                /\ Cardinality(mine) = 2
                /\ rows \subseteq entries
                /\ Cardinality(rows) = 4
                /\ Cardinality({e.id : e \in rows}) = 4
                /\ balance[arg[p].from] = InitBalance - 2 * arg[p].amount
                /\ balance[arg[p].to] = InitBalance + 2 * arg[p].amount

C12_Witness == \E p \in Procs, q \in Procs : Twins(p, q)

\* the repository writes of caller p that succeeded, in order
IsWrite(c) == c.op \in {"CreateTransfer", "CreateEntry", "AddAccountBalance"} /\ c.err = nil
Writes(p) == SelectSeq(trace[p], IsWrite)

\* where caller p's execution stands: by its successful writes while it runs, by
\* the fate of its transaction once Commit or Rollback has been called
ExecState(p) ==
    CASE pc[p] = "idle" -> "NotStarted"
      [] pc[p] = "panicked" -> "Panicked"
      [] Issued(p, "Commit") -> IF txState[p] = "committed" THEN "Committed" ELSE "RolledBack"
      [] Issued(p, "Rollback") -> "RolledBack"
      [] pc[p] = "done" -> "RolledBack"
      [] Len(Writes(p)) = 0 -> "Started"
      [] Len(Writes(p)) \in {1, 2} -> "TransferRecorded"
      [] Len(Writes(p)) \in {3, 4} -> "EntriesRecorded"
      [] OTHER -> "BalancesUpdated"

Successor(s) ==
    CASE s = "NotStarted" -> "Started"
      [] s = "Started" -> "TransferRecorded"
      [] s = "TransferRecorded" -> "EntriesRecorded"
      [] s = "EntriesRecorded" -> "BalancesUpdated"
      [] s = "BalancesUpdated" -> "Committed"
      [] OTHER -> s

Moves(s, t) ==
    \/ t = s
    \/ t = Successor(s)
    \/ t = "RolledBack" /\ s \in {"Started", "TransferRecorded", "EntriesRecorded",
                                   "BalancesUpdated"}

\* the calls of an execution that committed: begin, the transfer insert, the two
\* entry inserts, the two balance updates, commit, all of them successful
CommittedTrace(p) ==
    /\ [i \in 1..Len(trace[p]) |-> trace[p][i].op] =
          <<"BeginTx", "CreateTransfer", "CreateEntry", "CreateEntry",
            "AddAccountBalance", "AddAccountBalance", "Commit">>
    /\ \A i \in 1..Len(trace[p]) : trace[p][i].err = nil
    /\ trace[p][3].a = arg[p].from /\ trace[p][4].a = arg[p].to
    /\ {trace[p][5].a, trace[p][6].a} = {arg[p].from, arg[p].to}

\* C13 (per-execution state machine): every TransferTx execution moves only along
\* Started -> TransferRecorded -> EntriesRecorded -> BalancesUpdated -> Committed,
\* or from a non-terminal state to RolledBack; it never goes back, Committed and
\* RolledBack are left no more, and an execution is Committed only after the
\* transfer insert, both entry inserts and both balance updates succeeded, in
\* this order.
C13_StateMachine ==
    /\ [](\A p \in Procs : ExecState(p) = "Committed" => CommittedTrace(p))
    /\ [][\A p \in Procs : Moves(ExecState(p), ExecState(p)')]_vars

C13_Witness ==
    \E p \in Procs, q \in Procs :
        /\ ExecState(p) = "Committed"
        /\ ExecState(q) = "RolledBack" /\ Len(Writes(q)) = 4

Count(p, op) == Cardinality({i \in 1..Len(trace[p]) : trace[p][i].op = op})
FailedCalls(p) == {i \in 1..Len(trace[p]) : trace[p][i].err # nil}

\* C14 (no local retry, abort on first failure): in one TransferTx execution
\* BeginTx, CreateTransfer, Commit and Rollback are each issued at most once, and so
\* are the CreateEntry and the AddAccountBalance of each of the two accounts; the
\* first call that fails is the last call of the step (only the Rollback of a
\* failed write follows it), and TransferTx then returns a non-nil error, also
\* when the failure is the store's (serialization failure, deadlock).
C14_NoRetry ==
    \A p \in Procs :
        LET t == trace[p] IN
        /\ \A op \in {"BeginTx", "CreateTransfer", "Commit", "Rollback"} : Count(p, op) <= 1
        /\ \A op \in {"CreateEntry", "AddAccountBalance"} : Count(p, op) <= 2
        /\ Valid(p) =>
              \A i \in 1..Len(t), j \in 1..Len(t) :
                  (i # j) => <<t[i].op, t[i].a>> # <<t[j].op, t[j].a>>
        /\ \A i \in FailedCalls(p) :
              \/ i = Len(t)
              \/ /\ i = Len(t) - 1
                 /\ t[Len(t)].op = "Rollback"
                 /\ t[i].op \in {"CreateTransfer", "CreateEntry", "AddAccountBalance"}
        /\ (Done(p) /\ FailedCalls(p) # {}) => err[p] # nil

C14_Witness ==
    \E p \in Procs :
        /\ Done(p) /\ Valid(p) /\ err[p] = ErrStore
        /\ Len(Updates(p)) = 2 /\ Updates(p)[2].err = ErrStore

\* C15 (delete then get): once DeleteAccount(id) has succeeded on an existing
\* account, GetAccount(id) returns sql.ErrNoRows and the empty Account, and once
\* DeleteTransfer(id) has succeeded on an existing transfer, GetTransfer(id) returns
\* an error and the empty Transfer, whatever was created or deleted in between.
C15_DeleteThenGet ==
    /\ (got.op = "GetAccount" /\ <<"accounts", got.id>> \in deleted) =>
          got.err = ErrNoRows /\ got.row = NoAccount
    /\ (got.op = "GetTransfer" /\ <<"transfers", got.id>> \in deleted) =>
          got.err # nil /\ got.row = NoTransfer

\* a Get of a deleted transfer, after a later transfer was created and while an
\* account created in between is deleted as well
C15_Witness ==
    /\ got.op = "GetTransfer" /\ <<"transfers", got.id>> \in deleted
    /\ serial.transfers > got.id
    /\ \E a \in AccountIDs : a > Bystander /\ <<"accounts", a>> \in deleted

\* the requests the API must refuse: GET /account/0, a list with page_id 0, a create
\* with an unsupported currency or without owner
FailsValidation(r) ==
    \/ r.route = "getAccount" /\ r.id = 0
    \/ r.route = "listAccounts" /\ r.page_id = 0
    \/ r.route = "createAccount" /\ (r.currency = "xyz" \/ r.owner = "")

\* C16 (HTTP layer guards the store): a request that fails validation is answered
\* with 400 and no store method is called for it; every other request calls the
\* store method of its route exactly once, and the answer is 404 when that call
\* returned sql.ErrNoRows and 500 when it returned any other error.
C16_HTTPGuardsStore ==
    http.served > 0 =>
        LET r == http.req
            total == http.calls["GetAccount"] + http.calls["CreateAcount"]
                       + http.calls["ListAccounts"]
        IN  /\ total <= http.served
            /\ FailsValidation(r) => http.status = 400 /\ http.called = <<>>
            /\ ~FailsValidation(r) =>
                  /\ Len(http.called) = 1
                  /\ http.called[1].method =
                        (CASE r.route = "getAccount" -> "GetAccount"
                           [] r.route = "listAccounts" -> "ListAccounts"
                           [] OTHER -> "CreateAcount")
                  /\ http.calls[http.called[1].method] >= 1
                  /\ http.called[1].err = ErrNoRows => http.status = 404
                  /\ http.called[1].err \notin {nil, ErrNoRows} => http.status = 500

\* a refused request served after a request whose store call found no row
C16_Witness ==
    /\ http.served = MaxRequests
    /\ http.req.route = "listAccounts" /\ http.req.page_id = 0 /\ http.status = 400
    /\ http.calls["GetAccount"] = MaxRequests - 1

\* TransferTx of caller p returned nil
Succeeded(p) == Done(p) /\ err[p] = nil

\* C17 (result mapping): after every successful TransferTx(from, to, amount), for
\* from < to and for from >= to alike, result.FromAccount is the row of account
\* from and result.ToAccount the row of account to, each with the balance this
\* execution's own update left (for a call run on its own: the initial balance
\* minus amount and plus amount, and for from = to the credit comes first), and
\* result.Transfer, result.FromEntry and result.ToEntry are the rows this execution
\* created, no other execution's.
C17_ResultMapping ==
    \A p \in Procs :
        Succeeded(p) =>
            /\ result[p].FromAccount.id = arg[p].from
            /\ result[p].ToAccount.id = arg[p].to
            /\ OthersIdle(p) =>
                  /\ result[p].ToAccount.balance = InitBalance + arg[p].amount
                  /\ result[p].FromAccount.balance =
                        IF arg[p].from = arg[p].to THEN InitBalance
                        ELSE InitBalance - arg[p].amount
            /\ result[p].Transfer \in transfers
            /\ result[p].Transfer.from = arg[p].from
            /\ result[p].Transfer.to = arg[p].to
            /\ result[p].Transfer.amount = arg[p].amount
            /\ result[p].FromEntry \in entries /\ result[p].ToEntry \in entries
            /\ result[p].FromEntry.id # result[p].ToEntry.id
            /\ result[p].FromEntry.account = arg[p].from
            /\ result[p].ToEntry.account = arg[p].to
            /\ \A q \in Procs \ {p} :
                  /\ result[q].Transfer.id # result[p].Transfer.id
                  /\ {result[q].FromEntry.id, result[q].ToEntry.id}
                        \cap {result[p].FromEntry.id, result[p].ToEntry.id} = {}

\* a successful transfer from the larger to the smaller account id, on its own
C17_Witness ==
    \E p \in Procs :
        /\ Succeeded(p) /\ OthersIdle(p)
        /\ arg[p].amount > 0 /\ arg[p].from > arg[p].to
        /\ result[p].FromAccount.balance < result[p].ToAccount.balance

\* no TransferTx is running, and those that ran were transfers of a positive amount
\* between two different accounts
Quiescent == \A p \in Procs : pc[p] = "idle" \/ (Done(p) /\ Valid(p))

RECURSIVE SumBalances(_)
SumBalances(S) ==
    IF S = {} THEN 0
    ELSE LET a == CHOOSE x \in S : TRUE IN balance[a] + SumBalances(S \ {a})

\* C18 (conservation of money): in every state in which no TransferTx is running
\* the sum of all account balances is what it was initially, whatever step of
\* whichever execution failed (between the two balance updates and at commit
\* included).
C18_Conservation ==
    Quiescent => SumBalances(StoreAccounts) = Cardinality(StoreAccounts) * InitBalance

RECURSIVE SumAmounts(_)
SumAmounts(E) ==
    IF E = {} THEN 0
    ELSE LET e == CHOOSE x \in E : TRUE IN e.amount + SumAmounts(E \ {e})

EntriesOf(a) == {e \in entries : e.account = a}

\* C19 (ledger consistency): in every state in which no TransferTx is running, the
\* balance of every account is its initial balance plus the amounts of the
\* persisted Entries on that account: no Entry without its balance change, no
\* balance change without its Entry.
C19_LedgerConsistency ==
    Quiescent =>
        \A a \in StoreAccounts : balance[a] = InitBalance + SumAmounts(EntriesOf(a))

\* the accounts the execution of caller p may touch
Touches(p, a) == a = arg[p].from \/ a = arg[p].to

\* a step of the store is within the frame of the execution that takes it (the one
\* whose list of calls grows): balances change and Entry rows appear only on that
\* execution's two accounts, and every row that was there is still there, as it was
WithinFrame ==
    /\ \A a \in StoreAccounts :
          balance'[a] # balance[a] =>
              \E p \in Procs : trace'[p] # trace[p] /\ Touches(p, a)
    /\ \A e \in entries' \ entries :
          \E p \in Procs : trace'[p] # trace[p] /\ Touches(p, e.account)
    /\ transfers \subseteq transfers'
    /\ entries \subseteq entries'
    /\ \A t \in transfers' \ transfers : \A u \in transfers : u.id # t.id
    /\ \A e \in entries' \ entries : \A u \in entries : u.id # e.id

\* C20 (frame): a TransferTx(from, to, amount) execution, committing or failing,
\* never changes the balance of an account other than from and to, never creates
\* an Entry on another account, and never modifies or deletes a Transfer or Entry
\* row that an earlier execution created.
C20_Frame ==
    /\ [](balance[Bystander] = InitBalance)
    /\ [](\A e \in entries : \E p \in Procs : Touches(p, e.account))
    /\ [][WithinFrame]_vars

\* one execution committed and another failed inside AddAccountBalanceOrder, next
\* to an account neither of them names
C20_Witness ==
    \E p \in Procs, q \in Procs :
        /\ Succeeded(p) /\ Valid(p) /\ result[p].Transfer \in transfers
        /\ Done(q) /\ Valid(q) /\ err[q] # nil /\ Len(Updates(q)) = 2
        /\ ~Touches(p, Bystander) /\ ~Touches(q, Bystander)
====
